---- MODULE Spec2Model ----
(***************************************************************************)
(* The plan/time engine of backend/guardian_agent.py (class                *)
(* PlanRepository): loading a daily plan, normalizing its time strings,    *)
(* classifying the focus task, shifting the rest of the day after an       *)
(* anchor task, saving, and the day summary.                               *)
(*                                                                         *)
(* Dates are day numbers counted from 2025-06-01 (day 0).  An instant is   *)
(* a number of seconds counted from 2025-06-01 00:00:00 local time.  A     *)
(* stored time string is a record [fmt, day, sod]: its shape, the day it   *)
(* writes (date-qualified shapes only) and the second of the day it        *)
(* writes.  An optional value is <<>> (Python None) or <<v>>.              *)
(***************************************************************************)
EXTENDS Integers, Sequences, FiniteSets, TLC

VARIABLES
    files,      \* storage: daily[d] is daily_tasks_<d>.json, updated is UPDATED_PLAN_FILE
    latest,     \* PlanRepository._latest, the plan object the caller shares: <<>> or <<plan>>
    nShifts,    \* number of shift_remaining calls made so far
    last,       \* the last call: its operation, inputs, pre-state and outcome
    guardian,   \* STATE_FILE of new_agent.py: <<>> (no file) or <<[state, updated_at]>>
    given,      \* the states handed to set_guardian_state so far, oldest first
    sessions,   \* two processes each inside reschedule_remaining_day: position and locals
    wrote       \* per stored file, the session whose json.dump completed on it last

vars == <<files, latest, nShifts, last, guardian, given, sessions, wrote>>

\* the two concurrent sessions
raceVars == <<sessions, wrote>>

\* what the plan repository of a single session never touches
sideVars == <<guardian, given, raceVars>>

-----------------------------------------------------------------------------
(* Bounds of the model *)

\* Longest tasks list an initial plan file holds.
MaxTasks == 2

\* Largest number of shift_remaining calls in one behaviour.
MaxShifts == 1

\* Largest number of set_guardian_state calls in one behaviour.
MaxSets == 3

-----------------------------------------------------------------------------
(* Time arithmetic *)

SecPerMin == 60
SecPerDay == 24 * 60 * SecPerMin

\* second of the day of h:m:s
HMS(h, m, s) == (h * 60 + m) * SecPerMin + s

\* the instant of day d at h:m:s
At(d, h, m, s) == d * SecPerDay + HMS(h, m, s)

\* datetime.date() and the time of day of an instant
DateOf(dt) == dt \div SecPerDay
SecOfDay(dt) == dt % SecPerDay

None == <<>>
Some(v) == <<v>>
IsSome(o) == o # <<>>

-----------------------------------------------------------------------------
(* Stored time strings *)

\* the key is absent (or null, or the empty string): task.get(...) is falsy
NoStr == [fmt |-> "NONE", day |-> 0, sod |-> 0]
\* "HH:MM"
StrHM(h, m) == [fmt |-> "HM", day |-> 0, sod |-> HMS(h, m, 0)]
\* "HH:MM:SS"
StrHMS(h, m, s) == [fmt |-> "HMS", day |-> 0, sod |-> HMS(h, m, s)]
\* "YYYY-MM-DD HH:MM"
StrYMDHM(d, h, m) == [fmt |-> "YMDHM", day |-> d, sod |-> HMS(h, m, 0)]
\* "YYYY-MM-DD HH:MM:SS"
StrYMDHMS(d, h, m, s) == [fmt |-> "YMDHMS", day |-> d, sod |-> HMS(h, m, s)]
\* a string no format matches, without and with a "-" among its first ten characters
StrJunk == [fmt |-> "JUNK", day |-> 0, sod |-> 0]
StrJunkDash == [fmt |-> "JUNKDASH", day |-> 0, sod |-> 0]
\* "YYY-MM-DD HH:MM", a year of fewer than four digits written without its zeros
StrShortYearHM(d, h, m) == [fmt |-> "Y3MDHM", day |-> d, sod |-> HMS(h, m, 0)]

\* "-" in value[:10]
HasDash(value) == value.fmt \in {"YMDHM", "YMDHMS", "JUNKDASH", "Y3MDHM"}

\* 1000-01-01 as a day number: the first date whose year has four digits.  The
\* instants are seconds in 32-bit integers, which reach some 24855 days either
\* side of 2025-06-01, so the calendar of the model leaves out the centuries
\* in between: only the order of the dates and differences of a few days are
\* ever used.
FirstDayOfYear1000 == -20000

\* strftime("%Y") of the C library: zero-padded to four digits, or not (glibc)
YearPadding == {"padded", "unpadded"}

\* PlanRepository._parse_task_time: the date-qualified formats first, then the
\* time-only formats combined with plan_date; None when nothing matches.
ParseTaskTime(value, plan_date) ==
    CASE value.fmt = "NONE" -> None
      [] value.fmt \in {"YMDHM", "YMDHMS"} -> Some(value.day * SecPerDay + value.sod)
      [] value.fmt \in {"HM", "HMS"} -> Some(plan_date * SecPerDay + value.sod)
      [] OTHER -> None

\* _should_include_date without its "plan_date != today" test
ShouldIncludeDateByDashOnly(value, plan_date, today) ==
    IF value.fmt = "NONE" THEN FALSE
    ELSE HasDash(value)

\* PlanRepository._should_include_date
ShouldIncludeDate(value, plan_date, today) ==
    IF value.fmt = "NONE" THEN FALSE
    ELSE HasDash(value) \/ plan_date # today

\* PlanRepository._dt_to_str on a given C library: strftime drops the seconds
\* in both formats, and the date in the time-only format; a year before 1000
\* comes out with or without its leading zeros.
DtToStrOn(dt_value, include_date, libc) ==
    LET minute == SecOfDay(dt_value) - (SecOfDay(dt_value) % SecPerMin)
    IN  IF ~include_date THEN [fmt |-> "HM", day |-> 0, sod |-> minute]
        ELSE IF DateOf(dt_value) < FirstDayOfYear1000 /\ libc = "unpadded"
        THEN [fmt |-> "Y3MDHM", day |-> DateOf(dt_value), sod |-> minute]
        ELSE [fmt |-> "YMDHM", day |-> DateOf(dt_value), sod |-> minute]

\* PlanRepository._dt_to_str; the two C libraries agree from the year 1000 on,
\* which is where every stored plan of the state machine lives.
DtToStr(dt_value, include_date) == DtToStrOn(dt_value, include_date, "unpadded")

-----------------------------------------------------------------------------
(* Tasks and the normalized view *)

\* task["id"] / task["status"] when the key is not in the record
Missing == "(missing)"

\* a raw task record of the plan file
Task(id, start, end, status) ==
    [id |-> id, start |-> start, end |-> end, status |-> status]

\* one entry of the normalized view: the task's fields, its position in tasks
\* (0-based in the code, 1-based here) and its two parsed instants
NormEntry(task, idx, plan_date) ==
    [id |-> task.id, start |-> task.start, end |-> task.end, status |-> task.status,
     index |-> idx,
     start_dt |-> ParseTaskTime(task.start, plan_date),
     end_dt |-> ParseTaskTime(task.end, plan_date)]

\* a sort key that falls back on end_dt before datetime.max
KeyLessByEnd(a, b) ==
    LET ka == IF IsSome(a.start_dt) THEN a.start_dt ELSE a.end_dt
        kb == IF IsSome(b.start_dt) THEN b.start_dt ELSE b.end_dt
    IN  /\ IsSome(ka)
        /\ (IsSome(kb) => ka[1] < kb[1])

\* the sort key order: start_dt, or datetime.max for an untimed entry
KeyLess(a, b) ==
    /\ IsSome(a.start_dt)
    /\ (IsSome(b.start_dt) => a.start_dt[1] < b.start_dt[1])

\* list.sort is stable: e goes after every entry whose key is not greater
RECURSIVE InsertSorted(_, _)
InsertSorted(e, sorted) ==
    IF sorted = <<>> THEN <<e>>
    ELSE IF KeyLess(e, Head(sorted)) THEN <<e>> \o sorted
    ELSE <<Head(sorted)>> \o InsertSorted(e, Tail(sorted))

RECURSIVE SortByStart(_)
SortByStart(entries) ==
    IF entries = <<>> THEN <<>>
    ELSE InsertSorted(entries[Len(entries)], SortByStart(SubSeq(entries, 1, Len(entries) - 1)))

\* PlanRepository._normalize_tasks
NormalizeTasks(tasks, plan_date) ==
    SortByStart([i \in 1..Len(tasks) |-> NormEntry(tasks[i], i, plan_date)])

-----------------------------------------------------------------------------
(* Plans *)

\* the plan_data dict of load_plan: path is the day of the file it was read from
Plan(path, plan_date, tasks, normalized) ==
    [path |-> path, plan_date |-> plan_date, tasks |-> tasks, normalized |-> normalized]

\* the contents of a storage key: a JSON list of tasks, or no file
FileList(tasks) == [kind |-> "list", tasks |-> tasks]
NoFile == [kind |-> "absent", tasks |-> <<>>]
\* a file json.load fails on (or open fails on)
FileUnreadable == [kind |-> "unreadable", tasks |-> <<>>]
\* a file holding JSON that is not a list
FileNotList == [kind |-> "not_list", tasks |-> <<>>]
\* a file holding a JSON list with an element that is not a task record (a
\* number, a string, or a record whose start is not a string)
FileNotTasks == [kind |-> "not_tasks", tasks |-> <<>>]

\* the days a daily_tasks_<date>.json key may exist for
Days == 0..1

\* daily_tasks_updated.json in plan_dir, where save_plan puts a plan that has no
\* path: the name passes the listing filter of resolve_plan_path and sorts
\* after every dated name
UnnamedKey == 2

\* the names of plan_dir that start with "daily_tasks_" and end with ".json"
Keys == Days \cup {UnnamedKey}

\* PlanRepository.resolve_plan_path: the key of the target day when it exists,
\* else the last of the sorted existing daily keys, else None
ResolvePlanPath(daily, target) ==
    LET existing == {d \in DOMAIN daily : daily[d].kind # "absent"}
    IN  IF target \in existing THEN Some(target)
        ELSE IF existing = {} THEN None
        ELSE Some(CHOOSE d \in existing : \A e \in existing : e <= d)

\* PlanRepository._plan_date_from_path: the date embedded in the key, today's
\* date when the name holds none
PlanDateFromPath(path, today) == IF path \in Days THEN path ELSE today

-----------------------------------------------------------------------------
(* determine_focus *)

\* the loop of determine_focus with the end of the interval excluded
RECURSIVE FocusScanExclusiveEnd(_, _, _)
FocusScanExclusiveEnd(timed, i, t) ==
    IF i > Len(timed) THEN [status |-> "finished", task |-> Some(timed[Len(timed)])]
    ELSE LET task == timed[i]
             start_dt == task.start_dt[1]
             end_dt == IF IsSome(task.end_dt) THEN task.end_dt[1] ELSE start_dt
         IN  IF start_dt <= t /\ t < end_dt THEN [status |-> "current", task |-> Some(task)]
             ELSE IF start_dt > t THEN [status |-> "upcoming", task |-> Some(task)]
             ELSE FocusScanExclusiveEnd(timed, i + 1, t)

\* the for loop of determine_focus over timed[i..], one pass, two tests per task
RECURSIVE FocusScan(_, _, _)
FocusScan(timed, i, t) ==
    IF i > Len(timed) THEN [status |-> "finished", task |-> Some(timed[Len(timed)])]
    ELSE LET task == timed[i]
             start_dt == task.start_dt[1]
             end_dt == IF IsSome(task.end_dt) THEN task.end_dt[1] ELSE start_dt
         IN  IF start_dt <= t /\ t <= end_dt THEN [status |-> "current", task |-> Some(task)]
             ELSE IF start_dt > t THEN [status |-> "upcoming", task |-> Some(task)]
             ELSE FocusScan(timed, i + 1, t)

\* PlanRepository.determine_focus
DetermineFocus(plan, t) ==
    LET normalized == plan.normalized
        timed == SelectSeq(normalized, LAMBDA e : IsSome(e.start_dt))
    IN  IF normalized = <<>> THEN [status |-> "empty", task |-> None]
        ELSE IF timed = <<>> THEN [status |-> "no_timed", task |-> Some(normalized[1])]
        ELSE FocusScan(timed, 1, t)

-----------------------------------------------------------------------------
(* day_summary *)

\* (end - start).total_seconds() / 60 without the max(0, ...), in seconds
TaskSecondsSigned(task) ==
    LET start == task.start_dt
        end == IF IsSome(task.end_dt) THEN task.end_dt ELSE start
    IN  IF IsSome(start) /\ IsSome(end) THEN end[1] - start[1] ELSE 0

\* max(0, (end - start).total_seconds() / 60), kept in seconds
TaskSeconds(task) ==
    LET start == task.start_dt
        end == IF IsSome(task.end_dt) THEN task.end_dt ELSE start
    IN  IF IsSome(start) /\ IsSome(end)
        THEN (IF end[1] - start[1] > 0 THEN end[1] - start[1] ELSE 0)
        ELSE 0

\* the loop "minutes += delta" over the normalized view, in seconds
RECURSIVE FocusedSeconds(_)
FocusedSeconds(normalized) ==
    IF normalized = <<>> THEN 0
    ELSE TaskSeconds(Head(normalized)) + FocusedSeconds(Tail(normalized))

\* f"{minutes/60:.1f}": the tenths of an hour the report can show for a total of
\* secs seconds.  The format rounds the binary value of minutes/60 to the
\* nearest tenth; a tie on a quarter hour is exact in binary and goes to the
\* even tenth; any other tie goes where the binary value nearest the quotient
\* lies, above or below.
HoursTenths(secs) ==
    LET q == secs \div (6 * 60)
        r == secs % (6 * 60)
    IN  IF r < 3 * 60 THEN {q}
        ELSE IF r > 3 * 60 THEN {q + 1}
        ELSE IF secs % (15 * 60) = 0 THEN {IF q % 2 = 0 THEN q ELSE q + 1}
        ELSE {q, q + 1}

\* len([t for t in tasks if t.get("status") == "done"])
RECURSIVE DoneCount(_)
DoneCount(tasks) ==
    IF tasks = <<>> THEN 0
    ELSE (IF Head(tasks).status = "done" THEN 1 ELSE 0) + DoneCount(Tail(tasks))

\* PlanRepository.day_summary: the figures of the sentence it returns
DaySummary(plan, tenths) ==
    [status |-> "ok", done |-> DoneCount(plan.tasks), total |-> Len(plan.tasks),
     tenths |-> tenths]

-----------------------------------------------------------------------------
(* save_plan and shift_remaining *)

\* what the two open(..., "w") calls of one save_plan can do
IoOutcomes == {"ok", "day_write_fails", "updated_write_fails"}

\* a target_path that prefers the plan's own path to the path argument
TargetPathOwnFirst(path, plan_path) ==
    IF IsSome(plan_path) THEN plan_path[1]
    ELSE IF IsSome(path) THEN path[1]
    ELSE UnnamedKey

\* target_path of save_plan: the path argument, else the plan's own path, else
\* the unnamed key (both optional values)
TargetPath(path, plan_path) ==
    IF IsSome(path) THEN path[1]
    ELSE IF IsSome(plan_path) THEN plan_path[1]
    ELSE UnnamedKey

\* PlanRepository.save_plan once target_path is known: the target key is
\* written, then normalized is rebuilt, then the latest-updated key is
\* written; a failing write raises and skips everything after it.
\* Result: the files, the plan and whether the call raised.
SavePlanTo(fs, plan, target_path, io) ==
    LET renormalized == [plan EXCEPT !.normalized = NormalizeTasks(plan.tasks, plan.plan_date)]
        dayWritten == [fs EXCEPT !.daily[target_path] = FileList(plan.tasks)]
    IN  CASE io = "day_write_fails" ->
               [files |-> fs, plan |-> plan, raised |-> TRUE]
          [] io = "updated_write_fails" ->
               [files |-> dayWritten, plan |-> renormalized, raised |-> TRUE]
          [] OTHER ->
               [files |-> [dayWritten EXCEPT !.updated = FileList(plan.tasks)],
                plan |-> renormalized, raised |-> FALSE]

\* PlanRepository.save_plan(plan_data) on a plan that has a path
SavePlan(fs, plan, io) == SavePlanTo(fs, plan, TargetPath(None, Some(plan.path)), io)

\* next((t for t in normalized if t.get("id") == anchor_id), None)
FindAnchor(normalized, anchor_id) ==
    LET hits == {i \in 1..Len(normalized) : normalized[i].id = anchor_id}
    IN  IF hits = {} THEN None
        ELSE Some(normalized[CHOOSE i \in hits : \A j \in hits : i <= j])

\* anchor.get("end_dt") or anchor.get("start_dt") or datetime.datetime.now().astimezone()
AnchorEnd(anchor, t) ==
    IF IsSome(anchor.end_dt) THEN anchor.end_dt[1]
    ELSE IF IsSome(anchor.start_dt) THEN anchor.start_dt[1]
    ELSE t

\* a or b on two stored strings
StrOr(a, b) == IF a.fmt # "NONE" THEN a ELSE b

\* the body of the for loop of shift_remaining for one entry of normalized that
\* is to be moved: both strings are rewritten with the one include_date
ShiftTask(tasks, task, delta, plan_date, today) ==
    LET start_dt == task.start_dt
        end_dt == IF IsSome(task.end_dt) THEN task.end_dt ELSE start_dt
        include_date == ShouldIncludeDate(StrOr(task.start, task.end), plan_date, today)
        new_start == start_dt[1] + delta
        new_end == IF IsSome(end_dt) THEN Some(end_dt[1] + delta) ELSE None
        withStart == [tasks EXCEPT ![task.index].start = DtToStr(new_start, include_date)]
    IN  IF IsSome(new_end)
        THEN [withStart EXCEPT ![task.index].end = DtToStr(new_end[1], include_date)]
        ELSE withStart

\* the "continue" tests of the loop without "start_dt < anchor_end"
LeftInPlaceNoCutoff(task, anchor_id, anchor_end) ==
    \/ task.id = anchor_id
    \/ ~IsSome(task.start_dt)

\* the three "continue" tests of the for loop of shift_remaining: the anchor
\* itself, an entry without start_dt, an entry that starts before anchor_end
LeftInPlace(task, anchor_id, anchor_end) ==
    \/ task.id = anchor_id
    \/ ~IsSome(task.start_dt)
    \/ task.start_dt[1] < anchor_end

\* the for loop of shift_remaining from normalized[i] on; task["id"] raises
\* KeyError on a record without an id, with the earlier rewrites already made
RECURSIVE ShiftLoop(_, _, _, _, _, _, _, _)
ShiftLoop(tasks, normalized, i, anchor_id, anchor_end, delta, plan_date, today) ==
    IF i > Len(normalized) THEN [tasks |-> tasks, raised |-> FALSE]
    ELSE LET task == normalized[i]
             rest(ts) == ShiftLoop(ts, normalized, i + 1, anchor_id, anchor_end,
                                   delta, plan_date, today)
         IN  IF task.id = Missing THEN [tasks |-> tasks, raised |-> TRUE]
             ELSE IF LeftInPlace(task, anchor_id, anchor_end) THEN rest(tasks)
             ELSE rest(ShiftTask(tasks, task, delta, plan_date, today))

\* the end of shift_remaining: self.save_plan(plan_data) unless the loop raised
ShiftCommit(fs, plan, loop, io) ==
    IF loop.raised
    THEN [files |-> fs, plan |-> [plan EXCEPT !.tasks = loop.tasks], outcome |-> "raised"]
    ELSE LET saved == SavePlan(fs, [plan EXCEPT !.tasks = loop.tasks], io)
         IN  [files |-> saved.files, plan |-> saved.plan,
              outcome |-> IF io = "ok" THEN "ok" ELSE "raised"]

\* shift_remaining in memory once the anchor is found: the anchor's end is
\* rewritten, then the loop runs over the normalized view
ShiftInMemory(plan, anchor, anchor_id, delta, t) ==
    LET plan_date == plan.plan_date
        today == DateOf(t)
        anchor_end == AnchorEnd(anchor, t)
        include_anchor_date ==
            ShouldIncludeDate(StrOr(anchor.end, anchor.start), plan_date, today)
        new_anchor_end == anchor_end + delta
        anchored == [plan.tasks EXCEPT
                        ![anchor.index].end = DtToStr(new_anchor_end, include_anchor_date)]
    IN  ShiftLoop(anchored, plan.normalized, 1, anchor_id, anchor_end, delta, plan_date,
                  today)

\* shift_remaining once the anchor is found: the shift in memory, then the save
ShiftFrom(fs, plan, anchor, anchor_id, delta, t, io) ==
    ShiftCommit(fs, plan, ShiftInMemory(plan, anchor, anchor_id, delta, t), io)

\* PlanRepository.shift_remaining.
\* Result: the files, the plan and the outcome: "not_found" (the message
\* returned for an unknown anchor), "raised" or "ok".
ShiftRemaining(fs, plan, anchor_id, delay_minutes, t, io) ==
    LET anchor == FindAnchor(plan.normalized, anchor_id)
    IN  IF ~IsSome(anchor)
        THEN [files |-> fs, plan |-> plan, outcome |-> "not_found"]
        ELSE ShiftFrom(fs, plan, anchor[1], anchor_id, delay_minutes * SecPerMin, t, io)

\* PlanRepository.load_plan.
\* Result: the plan (None when there is none) and the error: "none",
\* "PlanNotFound" (no key resolves), "PlanReadError" (open or json.load
\* raised), "PlanFormatError" (not a list), or "raised" (_normalize_tasks
\* raised AttributeError on an element that has no .get, or on a start that has
\* no .strip, and load_plan let it through).
LoadPlan(fs, date, t) ==
    LET target == IF IsSome(date) THEN date[1] ELSE DateOf(t)
        path == ResolvePlanPath(fs.daily, target)
        file == fs.daily[path[1]]
        plan_date == PlanDateFromPath(path[1], DateOf(t))
    IN  IF ~IsSome(path) THEN [plan |-> None, error |-> "PlanNotFound"]
        ELSE CASE file.kind = "unreadable" -> [plan |-> None, error |-> "PlanReadError"]
               [] file.kind = "not_list" -> [plan |-> None, error |-> "PlanFormatError"]
               [] file.kind = "not_tasks" -> [plan |-> None, error |-> "raised"]
               [] OTHER ->
                    [plan |-> Some(Plan(path[1], plan_date, file.tasks,
                                        NormalizeTasks(file.tasks, plan_date))),
                     error |-> "none"]

-----------------------------------------------------------------------------
(* ScheduleManagerTool.reschedule_remaining_day *)

\* what calendar.create_event and memory.write_memory can do when called
CollaboratorOutcomes == {"ok", "raises"}

\* PlanRepository._find_task: the first task of tasks with that id
FindTask(tasks, task_id) ==
    LET hits == {i \in 1..Len(tasks) : tasks[i].id = task_id}
    IN  IF hits = {} THEN None
        ELSE Some(tasks[CHOOSE i \in hits : \A j \in hits : i <= j])

\* the try block of reschedule_remaining_day: create_event is called when the
\* task is found and has a start and an end; whatever it raises is caught.
\* TRUE when the message gains "calendar sync skipped".
CalendarSkipped(tasks, current_task_id, calendar) ==
    LET anchor == FindTask(tasks, current_task_id)
    IN  /\ IsSome(anchor)
        /\ anchor[1].start.fmt # "NONE"
        /\ anchor[1].end.fmt # "NONE"
        /\ calendar = "raises"

\* reschedule_remaining_day from the shift on: shift_remaining, the calendar
\* try block, then memory.write_memory outside any try.
\* Result: the files, the plan, the outcome of the shift, whether the message
\* gained the calendar note, and the outcome of the call: "raised" when the
\* shift or the memory write raised, else what the shift returned.
RescheduleLoaded(fs, plan, current_task_id, delay_minutes, t, io, calendar, memory) ==
    LET shifted == ShiftRemaining(fs, plan, current_task_id, delay_minutes, t, io)
    IN  [files |-> shifted.files, plan |-> Some(shifted.plan), shift |-> shifted.outcome,
         calendar_skipped |->
             /\ shifted.outcome # "raised"
             /\ CalendarSkipped(shifted.plan.tasks, current_task_id, calendar),
         outcome |-> IF shifted.outcome = "raised" \/ memory = "raises" THEN "raised"
                     ELSE shifted.outcome]

\* ScheduleManagerTool.reschedule_remaining_day: nothing is done for a delay of
\* 0, the error of load_plan is returned as it is, and a load_plan that raises
\* is not caught.
RescheduleRemainingDay(fs, held, current_task_id, delay_minutes, t, io, calendar, memory) ==
    LET loaded == LoadPlan(fs, None, t)
        untouched(outcome) ==
            [files |-> fs, plan |-> held, shift |-> "none", calendar_skipped |-> FALSE,
             outcome |-> outcome]
    IN  IF delay_minutes = 0 THEN untouched("nothing_to_do")
        ELSE IF loaded.error = "raised" THEN untouched("raised")
        ELSE IF loaded.error # "none" THEN untouched("load_error")
        ELSE RescheduleLoaded(fs, loaded.plan[1], current_task_id, delay_minutes, t, io,
                              calendar, memory)

-----------------------------------------------------------------------------
(* The guardian state of new_agent.py *)

\* a get_guardian_state that reports only the four states of the state machine
GetGuardianStateKnownOnly(file) ==
    IF IsSome(file) /\ file[1].state \in {"Idle", "Starting", "Running", "Closing"}
    THEN file[1].state
    ELSE "Idle"

\* get_guardian_state: "Idle" when STATE_FILE does not exist, else the state
\* the file holds
GetGuardianState(file) == IF IsSome(file) THEN file[1].state ELSE "Idle"

-----------------------------------------------------------------------------
(* The inputs of the model *)

\* the ids a plan's producer gives its tasks, by position
TaskIds == <<"t1", "t2", "t3", "t4", "t5">>

\* The task shapes the initial plan file is built from: start, end, status,
\* and whether the record has an id.
Shape(start, end, status, hasId) ==
    [start |-> start, end |-> end, status |-> status, hasId |-> hasId]

\* 09:00-09:30, done
ShapeFirst == Shape(StrHM(9, 0), StrHM(9, 30), "done", TRUE)
\* 09:30-10:00
ShapeSecond == Shape(StrHM(9, 30), StrHM(10, 0), "pending", TRUE)
\* 09:30-10:30, no status key
ShapeLong == Shape(StrHM(9, 30), StrHM(10, 30), Missing, TRUE)
\* 23:50, no end
ShapeLate == Shape(StrHM(23, 50), NoStr, "pending", TRUE)
\* "09:30:30" to "2025-06-01 10:00"
ShapeSeconds == Shape(StrHMS(9, 30, 30), StrYMDHM(0, 10, 0), "pending", TRUE)
\* no start, an end that does not parse
ShapeUntimed == Shape(NoStr, StrJunk, "pending", TRUE)
\* a start that does not parse, end 08:00
ShapeBadStart == Shape(StrJunkDash, StrHM(8, 0), "pending", TRUE)
\* 10:00-09:30 (the end before the start), done, no id key
ShapeNoId == Shape(StrHM(10, 0), StrHM(9, 30), "done", FALSE)

TaskPool ==
    {ShapeFirst, ShapeSecond, ShapeLong, ShapeLate, ShapeSeconds, ShapeUntimed,
     ShapeBadStart, ShapeNoId}

\* the tasks list of a sequence of shapes, ids by position
TasksOf(shapes) ==
    [i \in 1..Len(shapes) |-> Task(IF shapes[i].hasId THEN TaskIds[i] ELSE Missing,
                                   shapes[i].start, shapes[i].end, shapes[i].status)]

\* the tasks lists of at most MaxTasks tasks over TaskPool
InitialTasks ==
    UNION { {TasksOf(shapes) : shapes \in [1..n -> TaskPool]} : n \in 0..MaxTasks }

\* the shapes a reschedule tells apart, and the tasks lists of at most MaxTasks
\* tasks of different shapes among them
ShiftPool == TaskPool \ {ShapeLong, ShapeBadStart}
ShiftTasks ==
    UNION { {TasksOf(shapes) :
                shapes \in {f \in [1..n -> ShiftPool] :
                               \A i, j \in 1..n : i # j => f[i] # f[j]}}
            : n \in 0..MaxTasks }

\* the instants load_plan and shift_remaining read the clock at,
\* datetime.datetime.now(): 2025-06-01 09:30:00 and 2025-06-02 08:00:20
Instants == {At(0, 9, 30, 0), At(1, 8, 0, 20)}

\* the instants determine_focus reads the clock at: those, and on 2025-06-01
\* 09:00:00, 09:30:30, 09:40:00, 10:00:00 and 23:50:00
FocusInstants ==
    Instants \cup {At(0, 9, 0, 0), At(0, 9, 30, 30), At(0, 9, 40, 0), At(0, 10, 0, 0),
                   At(0, 23, 50, 0)}

\* the delay_minutes a reschedule is asked for
Delays == {-15, 0, 15}

\* the anchor ids a reschedule is asked for: every position's id and one more
AnchorIds == {TaskIds[i] : i \in 1..(MaxTasks + 1)}

\* the date argument of load_plan
DateArgs == {None} \cup {Some(d) : d \in Days}

\* the path argument of save_plan
PathArgs == {None} \cup {Some(k) : k \in Keys}

\* what a dated key holds when the store is opened: nothing, Scenario A, one
\* untimed task, or one of the three kinds of file that is no plan
StoreContents ==
    {NoFile, FileList(TasksOf(<<ShapeFirst, ShapeSecond>>)),
     FileList(TasksOf(<<ShapeUntimed>>)), FileUnreadable, FileNotList, FileNotTasks}

\* what tasks_json decodes to: Scenario D, an empty list, or something that is
\* not a list
StructuredInputs ==
    {FileList(TasksOf(<<ShapeFirst, ShapeLong>>)), FileList(<<>>), FileNotList}

\* the states a caller hands to set_guardian_state: the four of the state
\* machine and a string that is none of them
GuardianStates == {"Idle", "Starting", "Running", "Closing", "Napping"}

\* the inputs of the parse and format round trip: a day of the year 999 next
\* to the days of the plans, values in each of the four supported formats
EarlyDay == FirstDayOfYear1000 - 1

RoundTripDays == {0, 1, EarlyDay}

RoundTripClock == {<<0, 0, 0>>, <<9, 30, 30>>, <<23, 59, 59>>}

RoundTripValues ==
    UNION {{StrHM(c[1], c[2]), StrHMS(c[1], c[2], c[3])} : c \in RoundTripClock}
        \cup UNION {{StrYMDHM(d, c[1], c[2]), StrYMDHMS(d, c[1], c[2], c[3])} :
                       d \in RoundTripDays, c \in RoundTripClock}

\* two sessions of the program on the same plan_dir
Sessions == {"A", "B"}

\* a process that is not inside reschedule_remaining_day
NoSession ==
    [pc |-> "idle", plan |-> None, anchor_id |-> "", delay_minutes |-> 0, error |-> "none"]

\* a process entering reschedule_remaining_day(current_task_id, delay_minutes)
StartedSession(current_task_id, delay_minutes) ==
    [pc |-> "start", plan |-> None, anchor_id |-> current_task_id,
     delay_minutes |-> delay_minutes, error |-> "none"]

\* no json.dump has completed yet
NoWrites == [day |-> None, updated |-> None]

\* the arguments of the two racing calls, their common clock, and the plan of
\* the day they race on
RaceAnchors == {"t1", "t2"}

RaceDelays == {-15, 15}

RaceInstant == At(0, 9, 30, 0)

RaceTasks == {TasksOf(<<ShapeFirst, ShapeSecond>>), TasksOf(<<ShapeSecond, ShapeLate>>)}

-----------------------------------------------------------------------------
(* The state machine *)

\* no guardian state file, no state ever handed in
InitSide ==
    /\ guardian = None
    /\ given = <<>>
    /\ sessions = [s \in Sessions |-> NoSession]
    /\ wrote = NoWrites

\* the repository after construction, plan_dir holding the given contents
InitFiles(daily) ==
    /\ files = [daily |-> daily, updated |-> NoFile]
    /\ latest = None
    /\ nShifts = 0
    /\ last = [op |-> "none"]
    /\ InitSide

\* the repository after construction, over the plan file of 2025-06-01: one of
\* the given tasks lists, no file, or a file that is no plan
InitWith(tasksLists) ==
    \E content \in {FileList(ts) : ts \in tasksLists}
                      \cup {NoFile, FileUnreadable, FileNotList, FileNotTasks} :
        InitFiles([k \in Keys |-> IF k = 0 THEN content ELSE NoFile])

Init == InitWith(InitialTasks)

InitShift == InitWith(ShiftTasks)

\* the repository after construction, each dated key holding one of StoreContents
InitStore ==
    \E daily \in [Keys -> StoreContents] :
        /\ daily[UnnamedKey] = NoFile
        /\ InitFiles(daily)

\* path = resolve_plan_path(date); the clock is read for today's date
CallResolvePlanPath ==
    /\ \E date \in DateArgs, t \in Instants :
          last' = [op |-> "resolve_plan_path", date |-> date, today |-> DateOf(t),
                   result |-> ResolvePlanPath(files.daily,
                                              IF IsSome(date) THEN date[1] ELSE DateOf(t))]
    /\ UNCHANGED <<files, latest, nShifts, sideVars>>

\* plan_data, error = load_plan(date); the clock is read for today's date.
\* A load that gives no plan leaves the session with the plan it had.
CallLoadPlan ==
    /\ \E date \in DateArgs, t \in Instants :
          \E r \in {LoadPlan(files, date, t)} :
              /\ latest' = IF IsSome(r.plan) THEN r.plan ELSE latest
              /\ last' = [op |-> "load_plan", date |-> date, today |-> DateOf(t),
                          error |-> r.error]
    /\ UNCHANGED <<files, nShifts, sideVars>>

\* status, task = determine_focus(plan_data)
CallDetermineFocus ==
    /\ IsSome(latest)
    /\ \E t \in FocusInstants :
          last' = [op |-> "determine_focus", at |-> t,
                   result |-> DetermineFocus(latest[1], t)]
    /\ UNCHANGED <<files, latest, nShifts, sideVars>>

\* day_summary(plan_data), plan_data being None after a failed load
CallDaySummary ==
    /\ IF IsSome(latest)
       THEN \E tenths \in HoursTenths(FocusedSeconds(latest[1].normalized)) :
               last' = [op |-> "day_summary", result |-> DaySummary(latest[1], tenths)]
       ELSE last' = [op |-> "day_summary", result |-> [status |-> "not_loaded"]]
    /\ UNCHANGED <<files, latest, nShifts, sideVars>>

\* save_plan(plan_data, path): plan_data is the session's plan, or (has_path
\* FALSE) a dict of its tasks and plan_date with no "path", which the caller
\* drops after the call
CallSavePlan ==
    /\ IsSome(latest)
    /\ \E path \in PathArgs, has_path \in BOOLEAN, io \in IoOutcomes :
          \E r \in {SavePlanTo(files, latest[1],
                               TargetPath(path, IF has_path THEN Some(latest[1].path)
                                                ELSE None),
                               io)} :
              /\ IsSome(path) => has_path
              /\ files' = r.files
              /\ latest' = IF has_path THEN Some(r.plan) ELSE latest
              /\ last' = [op |-> "save_plan", path |-> path, has_path |-> has_path,
                          io |-> io, raised |-> r.raised]
    /\ UNCHANGED <<nShifts, sideVars>>

\* save_structured_plan(tasks_json) of main.py, the producer of the daily keys:
\* a JSON list is written to today's key, anything else is turned down
CallSaveStructuredPlan ==
    /\ \E content \in StructuredInputs, t \in Instants :
          IF content.kind = "list"
          THEN /\ files' = [files EXCEPT !.daily[DateOf(t)] = content]
               /\ last' = [op |-> "save_structured_plan", saved |-> TRUE]
          ELSE /\ files' = files
               /\ last' = [op |-> "save_structured_plan", saved |-> FALSE]
    /\ UNCHANGED <<latest, nShifts, sideVars>>

\* shift_remaining(plan_data, anchor_id, delay_minutes)
CallShiftRemaining ==
    /\ IsSome(latest)
    /\ nShifts < MaxShifts
    /\ \E anchor_id \in AnchorIds, delay_minutes \in Delays, io \in IoOutcomes,
          t \in Instants :
          \E r \in {ShiftRemaining(files, latest[1], anchor_id, delay_minutes, t, io)} :
              /\ files' = r.files
              /\ latest' = Some(r.plan)
              /\ last' = [op |-> "shift_remaining", anchor_id |-> anchor_id,
                          delay_minutes |-> delay_minutes, at |-> t, io |-> io,
                          outcome |-> r.outcome, pre |-> latest[1], preFiles |-> files]
    /\ nShifts' = nShifts + 1
    /\ UNCHANGED sideVars

\* schedule_tool.reschedule_remaining_day(current_task_id, delay_minutes)
CallRescheduleRemainingDay ==
    /\ nShifts < MaxShifts
    /\ \E current_task_id \in AnchorIds, delay_minutes \in Delays, t \in Instants,
          io \in IoOutcomes, calendar \in CollaboratorOutcomes,
          memory \in CollaboratorOutcomes :
          \E r \in {RescheduleRemainingDay(files, latest, current_task_id, delay_minutes,
                                           t, io, calendar, memory)} :
              /\ files' = r.files
              /\ latest' = r.plan
              /\ last' = [op |-> "reschedule_remaining_day",
                          anchor_id |-> current_task_id, delay_minutes |-> delay_minutes,
                          io |-> io, calendar |-> calendar, memory |-> memory,
                          shift |-> r.shift, calendar_skipped |-> r.calendar_skipped,
                          outcome |-> r.outcome, at |-> t, preFiles |-> files]
    /\ nShifts' = nShifts + 1
    /\ UNCHANGED sideVars

\* reschedule_remaining_day called again after a reschedule that returned its
\* confirmation, for the same task and the opposite delay; like every call it
\* loads the saved plan first
CallRescheduleBack ==
    /\ last.op = "reschedule_remaining_day"
    /\ last.outcome = "ok"
    /\ \E t \in Instants, io \in IoOutcomes, calendar \in CollaboratorOutcomes,
          memory \in CollaboratorOutcomes :
          /\ t >= last.at
          /\ \E r \in {RescheduleRemainingDay(files, latest, last.anchor_id,
                                               -last.delay_minutes, t, io, calendar,
                                               memory)} :
                /\ files' = r.files
                /\ latest' = r.plan
                /\ last' = [op |-> "reschedule_back", anchor_id |-> last.anchor_id,
                            delay_minutes |-> -last.delay_minutes, at |-> t,
                            outcome |-> r.outcome, first_at |-> last.at,
                            original |-> LoadPlan(last.preFiles, None, last.at).plan[1],
                            between |-> latest[1]]
    /\ nShifts' = nShifts + 1
    /\ UNCHANGED sideVars

\* set_guardian_state(state): the file is overwritten with the state and the
\* time of the call
SetGuardianState(state) ==
    /\ \E t \in Instants : guardian' = Some([state |-> state, updated_at |-> t])
    /\ given' = Append(given, state)
    /\ last' = [op |-> "set_guardian_state", state |-> state]
    /\ UNCHANGED <<files, latest, nShifts, raceVars>>

CallSetGuardianState ==
    /\ Len(given) < MaxSets
    /\ \E state \in GuardianStates : SetGuardianState(state)

\* get_guardian_state()
CallGetGuardianState ==
    /\ last' = [op |-> "get_guardian_state", result |-> GetGuardianState(guardian)]
    /\ UNCHANGED <<files, latest, nShifts, sideVars>>

\* _parse_task_time, _dt_to_str with include_date as the value is shaped, and
\* _parse_task_time again, against the same plan_date
CallRoundTrip ==
    /\ \E value \in RoundTripValues, plan_date \in RoundTripDays, libc \in YearPadding :
           LET parsed == ParseTaskTime(value, plan_date)
               include_date == value.fmt \in {"YMDHM", "YMDHMS"}
               written == DtToStrOn(parsed[1], include_date, libc)
           IN  last' = [op |-> "round_trip", value |-> value, plan_date |-> plan_date,
                        libc |-> libc, parsed |-> parsed, written |-> written,
                        reparsed |-> ParseTaskTime(written, plan_date)]
    /\ UNCHANGED <<files, latest, nShifts, sideVars>>

Next ==
    \/ CallSaveStructuredPlan
    \/ CallResolvePlanPath
    \/ CallLoadPlan
    \/ CallDetermineFocus
    \/ CallDaySummary
    \/ CallSavePlan
    \/ CallShiftRemaining
    \/ CallRescheduleRemainingDay
    \/ CallRescheduleBack
    \/ CallSetGuardianState
    \/ CallGetGuardianState
    \/ CallRoundTrip

Spec == Init /\ [][Next]_vars

\* Reschedules alone: a session that only loads and shifts.
NextShift ==
    \/ CallLoadPlan
    \/ CallShiftRemaining

SpecShift == InitShift /\ [][NextShift]_vars

\* The read side alone: a session that only loads and asks.
NextQuery ==
    \/ CallLoadPlan
    \/ CallDetermineFocus
    \/ CallDaySummary

SpecQuery == Init /\ [][NextQuery]_vars

\* The store alone: plans produced, resolved, loaded and saved.
NextStore ==
    \/ CallSaveStructuredPlan
    \/ CallResolvePlanPath
    \/ CallLoadPlan
    \/ CallSavePlan

SpecStore == InitStore /\ [][NextStore]_vars

\* The schedule tool alone: every reschedule loads the plan itself.
SpecTool == InitShift /\ [][CallRescheduleRemainingDay]_vars

\* The schedule tool, a reschedule and then its opposite.
NextBack ==
    \/ CallRescheduleRemainingDay
    \/ CallRescheduleBack

SpecBack == InitShift /\ [][NextBack]_vars

\* The guardian state alone.
NextGuardian ==
    \/ CallSetGuardianState
    \/ CallGetGuardianState

SpecGuardian == InitFiles([k \in Keys |-> NoFile]) /\ [][NextGuardian]_vars

\* The time conversions alone.
SpecTime == InitFiles([k \in Keys |-> NoFile]) /\ [][CallRoundTrip]_vars

-----------------------------------------------------------------------------
(* Two sessions rescheduling the same day.  Each session is a process of its
   own with its own PlanRepository; they share only the stored files.  A
   session's call is cut at its file operations: the read of load_plan, and
   for each of the two files of save_plan the open(..., "w"), which truncates
   the file at once, and the end of the with block, where the buffered
   json.dump reaches the file. *)

\* open(target_path, "w"): the file is empty until the dump is flushed
TruncateDay(fs, path) == [fs EXCEPT !.daily[path] = FileUnreadable]

\* the end of the first with block of save_plan
DumpDay(fs, path, tasks) == [fs EXCEPT !.daily[path] = FileList(tasks)]

\* open(UPDATED_PLAN_FILE, "w")
TruncateUpdated(fs) == [fs EXCEPT !.updated = FileUnreadable]

\* the end of the second with block of save_plan
DumpUpdated(fs, path, tasks) == [fs EXCEPT !.updated = FileList(tasks)]

\* both sessions enter reschedule_remaining_day over the same stored day
InitRace ==
    /\ \E tasks \in RaceTasks :
           files = [daily |-> [k \in Keys |-> IF k = 0 THEN FileList(tasks) ELSE NoFile],
                    updated |-> NoFile]
    /\ latest = None
    /\ nShifts = 0
    /\ last = [op |-> "none"]
    /\ guardian = None
    /\ given = <<>>
    /\ sessions \in [Sessions -> {StartedSession(a, d) : a \in RaceAnchors, d \in RaceDelays}]
    /\ wrote = NoWrites

\* plan_data, error = self.plan_repo.load_plan(); an error is returned to the caller
SessionLoad(s) ==
    /\ sessions[s].pc = "start"
    /\ \E r \in {LoadPlan(files, None, RaceInstant)} :
           sessions' = [sessions EXCEPT
                          ![s].plan = r.plan,
                          ![s].error = r.error,
                          ![s].pc = IF r.error = "none" THEN "loaded" ELSE "failed"]
    /\ UNCHANGED <<files, latest, nShifts, last, guardian, given, wrote>>

\* shift_remaining up to the open of the day's file in save_plan
SessionOpenDay(s) ==
    /\ sessions[s].pc = "loaded"
    /\ LET plan == sessions[s].plan[1]
           anchor == FindAnchor(plan.normalized, sessions[s].anchor_id)
       IN  IF ~IsSome(anchor)
           THEN /\ sessions' = [sessions EXCEPT ![s].pc = "done"]
                /\ files' = files
           ELSE \E loop \in {ShiftInMemory(plan, anchor[1], sessions[s].anchor_id,
                                            sessions[s].delay_minutes * SecPerMin,
                                            RaceInstant)} :
                   IF loop.raised
                   THEN /\ sessions' = [sessions EXCEPT ![s].pc = "raised",
                                                        ![s].plan[1].tasks = loop.tasks]
                        /\ files' = files
                   ELSE /\ sessions' = [sessions EXCEPT ![s].pc = "day_open",
                                                        ![s].plan[1].tasks = loop.tasks]
                        /\ files' = TruncateDay(files, plan.path)
    /\ UNCHANGED <<latest, nShifts, last, guardian, given, wrote>>

\* the day's file is written and closed, the normalized view rebuilt
SessionDumpDay(s) ==
    /\ sessions[s].pc = "day_open"
    /\ LET plan == sessions[s].plan[1]
       IN  /\ files' = DumpDay(files, plan.path, plan.tasks)
           /\ sessions' = [sessions EXCEPT
                              ![s].pc = "day_written",
                              ![s].plan[1].normalized =
                                  NormalizeTasks(plan.tasks, plan.plan_date)]
    /\ wrote' = [wrote EXCEPT !.day = Some(s)]
    /\ UNCHANGED <<latest, nShifts, last, guardian, given>>

\* open(UPDATED_PLAN_FILE, "w")
SessionOpenUpdated(s) ==
    /\ sessions[s].pc = "day_written"
    /\ files' = TruncateUpdated(files)
    /\ sessions' = [sessions EXCEPT ![s].pc = "updated_open"]
    /\ UNCHANGED <<latest, nShifts, last, guardian, given, wrote>>

\* UPDATED_PLAN_FILE is written and closed; the call returns its confirmation
SessionDumpUpdated(s) ==
    /\ sessions[s].pc = "updated_open"
    /\ LET plan == sessions[s].plan[1]
       IN  files' = DumpUpdated(files, plan.path, plan.tasks)
    /\ sessions' = [sessions EXCEPT ![s].pc = "done"]
    /\ wrote' = [wrote EXCEPT !.updated = Some(s)]
    /\ UNCHANGED <<latest, nShifts, last, guardian, given>>

NextRace ==
    \/ \E s \in Sessions : SessionLoad(s)
    \/ \E s \in Sessions : SessionOpenDay(s)
    \/ \E s \in Sessions : SessionDumpDay(s)
    \/ \E s \in Sessions : SessionOpenUpdated(s)
    \/ \E s \in Sessions : SessionDumpUpdated(s)

SpecRace == InitRace /\ [][NextRace]_vars

-----------------------------------------------------------------------------
(* Vocabulary of the properties *)

\* the last call was shift_remaining / it resolved its anchor / it returned its
\* confirmation
ShiftCalled == last.op = "shift_remaining"
ShiftResolved == ShiftCalled /\ last.outcome # "not_found"
ShiftSucceeded == ShiftCalled /\ last.outcome = "ok"

\* the anchor entry, anchor_end and the delay in seconds of the last shift
LastAnchor == FindAnchor(last.pre.normalized, last.anchor_id)[1]
LastAnchorEnd == AnchorEnd(LastAnchor, last.at)
LastDelta == last.delay_minutes * SecPerMin

\* the entry of a normalized view that stands for tasks[idx]
EntryOf(normalized, idx) ==
    normalized[CHOOSE k \in 1..Len(normalized) : normalized[k].index = idx]

\* the entries of a normalized view, as a set
Entries(normalized) == {normalized[k] : k \in 1..Len(normalized)}

\* the non-anchor entries of the pre-call view that a shift is to move, and
\* those it is to leave alone
ToMove ==
    {e \in Entries(last.pre.normalized) :
        /\ e.id # last.anchor_id
        /\ IsSome(e.start_dt)
        /\ e.start_dt[1] >= LastAnchorEnd}
ToKeep ==
    {e \in Entries(last.pre.normalized) :
        /\ e.id # last.anchor_id
        /\ (~IsSome(e.start_dt) \/ e.start_dt[1] < LastAnchorEnd)}

\* a plan whose normalized view is the normalization of its tasks
Fresh(plan) == plan.normalized = NormalizeTasks(plan.tasks, plan.plan_date)

-----------------------------------------------------------------------------
(* C1 *)

\* C1: after a successful shift_remaining, every non-anchor task whose pre-call
\* start_dt was >= anchor_end has, in the rebuilt normalized view, a start_dt
\* equal to its pre-call start_dt plus exactly the delay and, when it had an
\* end, an end_dt equal to its pre-call end_dt plus exactly the delay.
C1_ShiftedByExactlyDelay ==
    ShiftSucceeded =>
        \A e \in ToMove :
            LET after == EntryOf(latest[1].normalized, e.index)
            IN  /\ after.start_dt = Some(e.start_dt[1] + LastDelta)
                /\ IsSome(e.end_dt) => after.end_dt = Some(e.end_dt[1] + LastDelta)

-----------------------------------------------------------------------------
(* C2 *)

\* the stored start and end of the task of entry e are what they were before
\* the last shift, in the plan's tasks and, once saved, in the day key
StringsKept(e) ==
    /\ latest[1].tasks[e.index].start = last.pre.tasks[e.index].start
    /\ latest[1].tasks[e.index].end = last.pre.tasks[e.index].end
    /\ ShiftSucceeded =>
          /\ files.daily[latest[1].path].tasks[e.index].start = last.pre.tasks[e.index].start
          /\ files.daily[latest[1].path].tasks[e.index].end = last.pre.tasks[e.index].end

-----------------------------------------------------------------------------
(* C3 *)

\* C3: shift_remaining with delay 0 and an existing anchor leaves every field
\* of every task as it was before the call.
C3_ZeroDelayIdentity ==
    (ShiftSucceeded /\ last.delay_minutes = 0) => latest[1].tasks = last.pre.tasks

-----------------------------------------------------------------------------
(* C4 *)

\* Scenario A: tasks t1 09:00-09:30 and t2 09:30-10:00
IsScenarioA(tasks) ==
    /\ Len(tasks) = 2
    /\ tasks[1].id = "t1" /\ tasks[1].start = StrHM(9, 0) /\ tasks[1].end = StrHM(9, 30)
    /\ tasks[2].id = "t2" /\ tasks[2].start = StrHM(9, 30) /\ tasks[2].end = StrHM(10, 0)

\* the last call rescheduled t1 of a freshly loaded Scenario A plan by +15
ScenarioARescheduled ==
    /\ ShiftSucceeded
    /\ IsScenarioA(last.pre.tasks)
    /\ last.pre.plan_date = 0
    /\ Fresh(last.pre)
    /\ last.anchor_id = "t1"
    /\ last.delay_minutes = 15

\* C4 as stated: Scenario A leaves the stored strings t1.end = "09:45",
\* t2.start = "09:45" and t2.end = "10:15".
C4_ScenarioA_AsStated ==
    ScenarioARescheduled =>
        /\ latest[1].tasks[1].end = StrHM(9, 45)
        /\ latest[1].tasks[2].start = StrHM(9, 45)
        /\ latest[1].tasks[2].end = StrHM(10, 15)

\* C4 as amended: Scenario A leaves t1.end = "09:45", t2.start = "09:45" and
\* t2.end = "10:15" when the reschedule runs on 2025-06-01; run on another day
\* it leaves the same times date-qualified, "2025-06-01 09:45",
\* "2025-06-01 09:45" and "2025-06-01 10:15".
C4_ScenarioA ==
    ScenarioARescheduled =>
        IF DateOf(last.at) = 0
        THEN /\ latest[1].tasks[1].end = StrHM(9, 45)
             /\ latest[1].tasks[2].start = StrHM(9, 45)
             /\ latest[1].tasks[2].end = StrHM(10, 15)
        ELSE /\ latest[1].tasks[1].end = StrYMDHM(0, 9, 45)
             /\ latest[1].tasks[2].start = StrYMDHM(0, 9, 45)
             /\ latest[1].tasks[2].end = StrYMDHM(0, 10, 15)

\* Scenario A rescheduled on a day after 2025-06-01
C4_Witness == ScenarioARescheduled /\ DateOf(last.at) # 0

-----------------------------------------------------------------------------
(* C5 *)

\* C5: a reschedule is never partially applied: when shift_remaining does not
\* complete, the day key, the latest-updated key and the in-memory tasks hold
\* their pre-call contents; otherwise the shifted tasks are in all of them.
C5_AllOrNothing ==
    ShiftCalled =>
        IF last.outcome = "ok"
        THEN /\ files.daily[latest[1].path] = FileList(latest[1].tasks)
             /\ files.updated = FileList(latest[1].tasks)
        ELSE /\ files = last.preFiles
             /\ latest[1].tasks = last.pre.tasks

-----------------------------------------------------------------------------
(* C6 *)

\* C6: whenever a caller has control, the plan's normalized view is the
\* normalization of the plan's current tasks and plan_date.
C6_NormalizedIsCurrent == IsSome(latest) => Fresh(latest[1])

-----------------------------------------------------------------------------
(* C7 *)

\* C7: after a successful shift_remaining the anchor's stored end denotes
\* anchor_end + delay, and the anchor's start is not changed.
C7_AnchorEndMoved ==
    ShiftSucceeded =>
        /\ ParseTaskTime(latest[1].tasks[LastAnchor.index].end, latest[1].plan_date)
              = Some(LastAnchorEnd + LastDelta)
        /\ latest[1].tasks[LastAnchor.index].start = last.pre.tasks[LastAnchor.index].start

-----------------------------------------------------------------------------
(* C8 *)

\* the last call was determine_focus; no call changes the plan it was given
FocusCalled == last.op = "determine_focus"

\* e comes before f in ascending start order, ties in authoring order
StartsBefore(e, f) ==
    \/ e.start_dt[1] < f.start_dt[1]
    \/ (e.start_dt[1] = f.start_dt[1] /\ e.index <= f.index)

\* the first and the last of a non-empty set of timed entries in that order
FirstOf(S) == CHOOSE e \in S : \A f \in S : StartsBefore(e, f)
LastOf(S) == CHOOSE e \in S : \A f \in S : StartsBefore(f, e)

\* the five-step precedence, in two phases: first the tasks whose interval
\* contains t, and only when there is none the tasks that start after t
FocusByPrecedence(plan, t) ==
    LET timed == {e \in Entries(plan.normalized) : IsSome(e.start_dt)}
        endOf(e) == IF IsSome(e.end_dt) THEN e.end_dt[1] ELSE e.start_dt[1]
        containing == {e \in timed : e.start_dt[1] <= t /\ t <= endOf(e)}
        later == {e \in timed : e.start_dt[1] > t}
    IN  IF Len(plan.tasks) = 0 THEN [status |-> "empty", task |-> None]
        ELSE IF timed = {}
        THEN [status |-> "no_timed", task |-> Some(EntryOf(plan.normalized, 1))]
        ELSE IF containing # {}
        THEN [status |-> "current", task |-> Some(FirstOf(containing))]
        ELSE IF later # {}
        THEN [status |-> "upcoming", task |-> Some(FirstOf(later))]
        ELSE [status |-> "finished", task |-> Some(LastOf(timed))]

\* C8: determine_focus returns exactly the outcome of the five-step
\* precedence: empty, no_timed, current with the first task in ascending start
\* order whose interval [start_dt, end_dt or start_dt] contains now (bounds
\* inclusive), else upcoming with the first task starting after now, else
\* finished with the last timed task.
C8_FocusIsPrecedence ==
    FocusCalled =>
        /\ last.result = FocusByPrecedence(latest[1], last.at)
        /\ last.result.status \in {"empty", "no_timed", "current", "upcoming", "finished"}

\* determine_focus answered current for a task that ends exactly now, in a
\* plan with a second timed task
C8_Witness ==
    /\ FocusCalled
    /\ last.result.status = "current"
    /\ last.result.task[1].end_dt = Some(last.at)
    /\ Cardinality({e \in Entries(latest[1].normalized) : IsSome(e.start_dt)}) > 1

-----------------------------------------------------------------------------
(* C9 *)

\* no task of the plan has a start that parses
NoneTimed(plan) ==
    /\ Len(plan.tasks) > 0
    /\ \A i \in 1..Len(plan.tasks) :
          ParseTaskTime(plan.tasks[i].start, plan.plan_date) = None

\* C9: when a plan has tasks but none has a resolvable start, determine_focus
\* returns no_timed together with the task at the first position of tasks.
C9_NoTimedIsFirstTask ==
    (FocusCalled /\ NoneTimed(latest[1])) =>
        /\ last.result.status = "no_timed"
        /\ last.result.task[1].index = 1
        /\ last.result.task[1].id = latest[1].tasks[1].id

\* determine_focus called on two untimed tasks of which only the second has an
\* end that parses
C9_Witness ==
    /\ FocusCalled
    /\ NoneTimed(latest[1])
    /\ Len(latest[1].tasks) > 1
    /\ ParseTaskTime(latest[1].tasks[1].end, latest[1].plan_date) = None
    /\ ParseTaskTime(latest[1].tasks[2].end, latest[1].plan_date) # None

-----------------------------------------------------------------------------
(* C10 *)

\* the last call was day_summary on a loaded plan
SummaryCalled == last.op = "day_summary" /\ last.result.status = "ok"

\* what the claim has one task add: max(0, end_dt - start_dt) when it has
\* both, zero otherwise, in seconds
Span(e) ==
    IF IsSome(e.start_dt) /\ IsSome(e.end_dt) /\ e.end_dt[1] > e.start_dt[1]
    THEN e.end_dt[1] - e.start_dt[1]
    ELSE 0

\* the sum of Span over the first k entries of a normalized view
RECURSIVE SpanSum(_, _)
SpanSum(normalized, k) ==
    IF k = 0 THEN 0 ELSE Span(normalized[k]) + SpanSum(normalized, k - 1)

\* the sum, over the tasks that have both start_dt and end_dt, of
\* max(0, end_dt - start_dt), in seconds
BoundedSeconds(plan) == SpanSum(plan.normalized, Len(plan.normalized))

\* the counts of the report
CountsRight ==
    /\ last.result.done
          = Cardinality({i \in 1..Len(latest[1].tasks) : latest[1].tasks[i].status = "done"})
    /\ last.result.total = Len(latest[1].tasks)

\* Scenario D: a done task 09:00-09:30 and a task 09:30-10:30
IsScenarioD(plan) ==
    /\ Fresh(plan)
    /\ Len(plan.tasks) = 2
    /\ plan.tasks[1].start = StrHM(9, 0) /\ plan.tasks[1].end = StrHM(9, 30)
    /\ plan.tasks[1].status = "done"
    /\ plan.tasks[2].start = StrHM(9, 30) /\ plan.tasks[2].end = StrHM(10, 30)
    /\ plan.tasks[2].status # "done"

\* C10 as stated: day_summary reports the number of done tasks, the number of
\* tasks, and a focused time equal to the sum over the tasks with both bounds
\* of max(0, end_dt - start_dt).
C10_SummaryExact_AsStated ==
    SummaryCalled =>
        /\ CountsRight
        /\ last.result.tenths * (6 * 60) = BoundedSeconds(latest[1])

\* C10 as amended: day_summary reports the number of done tasks, the number of
\* tasks, and as focused time that sum in hours rounded to one decimal place
\* (so within 3 minutes of the sum); a task missing a bound or ending before
\* it starts adds zero; Scenario D gives 1 of 2 and 1.5 hours, 90 minutes.
C10_SummaryRounded ==
    SummaryCalled =>
        /\ CountsRight
        /\ last.result.tenths * (6 * 60) - BoundedSeconds(latest[1]) \in -(3 * 60)..(3 * 60)
        /\ IsScenarioD(latest[1]) =>
              /\ last.result.done = 1
              /\ last.result.total = 2
              /\ last.result.tenths = 15
              /\ BoundedSeconds(latest[1]) = 90 * 60

\* day_summary called on Scenario D
C10_Witness == SummaryCalled /\ IsScenarioD(latest[1])

-----------------------------------------------------------------------------
(* C11 *)

\* the last call was resolve_plan_path; its target date
ResolveCalled == last.op = "resolve_plan_path"
LastTarget == IF IsSome(last.date) THEN last.date[1] ELSE last.today

\* the dates whose daily key daily_tasks_<date>.json exists
DatedKeys == {d \in Days : files.daily[d].kind # "absent"}

\* C11: resolve_plan_path(date) returns the key of the requested date (today
\* when no date is given) whenever that key exists; when it does not exist it
\* returns the latest existing daily key; it returns absent exactly when no
\* daily key exists at all.
C11_ResolveIsRequestedOrLatestDaily ==
    ResolveCalled =>
        /\ LastTarget \in DatedKeys => last.result = Some(LastTarget)
        /\ (LastTarget \notin DatedKeys /\ DatedKeys # {}) =>
              last.result = Some(CHOOSE d \in DatedKeys : \A e \in DatedKeys : e <= d)
        /\ last.result = None <=> DatedKeys = {}

-----------------------------------------------------------------------------
(* C12 *)

\* the last call was load_plan; the key it resolved
LoadCalled == last.op = "load_plan"
LoadedPath == ResolvePlanPath(files.daily, LastTarget)

\* C12: load_plan returns (none, error) in exactly these cases: PlanNotFound
\* when no key resolves, PlanReadError when the resolved key cannot be read or
\* decoded, PlanFormatError when the decoded content is not a list; in every
\* other case it returns (plan, none), the plan holding the loaded tasks and
\* their normalized view.
C12_LoadOutcomes ==
    LoadCalled =>
        IF LoadedPath = None THEN last.error = "PlanNotFound"
        ELSE LET file == files.daily[LoadedPath[1]]
             IN  CASE file.kind = "unreadable" -> last.error = "PlanReadError"
                   [] file.kind = "not_list" -> last.error = "PlanFormatError"
                   [] OTHER ->
                        /\ last.error = "none"
                        /\ IsSome(latest)
                        /\ latest[1].path = LoadedPath[1]
                        /\ latest[1].tasks = file.tasks
                        /\ Fresh(latest[1])

-----------------------------------------------------------------------------
(* C13 *)

\* C13: for any stored content that decodes to a list, load_plan,
\* determine_focus, shift_remaining and day_summary return a result or an
\* error status: load_plan never raises, and shift_remaining raises only when
\* a write fails.
C13_ContentNeverRaises ==
    /\ LoadCalled => last.error # "raised"
    /\ (ShiftCalled /\ last.io = "ok") => last.outcome # "raised"
    /\ FocusCalled =>
          last.result.status \in {"empty", "no_timed", "current", "upcoming", "finished"}
    /\ last.op = "day_summary" => last.result.status \in {"ok", "not_loaded"}

-----------------------------------------------------------------------------
(* C14 *)

\* the last call was save_plan and it returned its confirmation
SaveSucceeded == last.op = "save_plan" /\ ~last.raised

\* the key the claim has the last save_plan write: the explicit path if given,
\* else the plan's own path, else the unnamed key
ClaimedTarget ==
    IF IsSome(last.path) THEN last.path[1]
    ELSE IF last.has_path THEN latest[1].path
    ELSE UnnamedKey

\* what a successful save_plan leaves behind
SavedEverywhere ==
    /\ files.daily[ClaimedTarget] = FileList(latest[1].tasks)
    /\ files.updated = FileList(latest[1].tasks)
    /\ last.has_path => Fresh(latest[1])

\* C14: after every successful save_plan the target key and the latest-updated
\* key both hold exactly the plan's tasks and the normalized view has been
\* rebuilt from them; and no step that is not a successful save_plan changes
\* the latest-updated key, so that key always equals the tasks of the most
\* recent successful save.
C14_SaveMirrorsLatest ==
    [][ /\ SaveSucceeded' => SavedEverywhere'
        /\ ~SaveSucceeded' => files'.updated = files.updated ]_vars

\* a plan loaded from one day's key saved under another key
C14_Witness ==
    /\ SaveSucceeded
    /\ ClaimedTarget # latest[1].path
    /\ latest[1].tasks # <<>>

-----------------------------------------------------------------------------
(* C15 *)

\* the state handed to the most recent set_guardian_state, "Idle" before the
\* first
MostRecentlyGiven == IF given = <<>> THEN "Idle" ELSE given[Len(given)]

\* C15: the guardian state is a last-write register: get_guardian_state
\* reports the state handed to the most recent set_guardian_state, and Idle
\* when none was ever written; a set_guardian_state is accepted with any state
\* whatever the state before it; the file holds the last state only.
C15_LastWriteRegister ==
    /\ last.op = "get_guardian_state" => last.result = MostRecentlyGiven
    /\ last.op = "set_guardian_state" => last.state = MostRecentlyGiven
    /\ \A state \in GuardianStates : ENABLED SetGuardianState(state)
    /\ IF given = <<>> THEN guardian = None
       ELSE /\ IsSome(guardian)
            /\ DOMAIN guardian[1] = {"state", "updated_at"}
            /\ guardian[1].state = MostRecentlyGiven

\* get_guardian_state after Closing was overwritten by a string that is no
\* state of the machine, itself written over Running
C15_Witness ==
    /\ last.op = "get_guardian_state"
    /\ Len(given) = 3
    /\ given = <<"Running", "Closing", "Napping">>

-----------------------------------------------------------------------------
(* C16 *)

\* the last call was reschedule_remaining_day and its shift was carried out
\* and saved
RescheduleShifted == last.op = "reschedule_remaining_day" /\ last.shift = "ok"

\* C16: when a collaborator fails after the shift (create_event raises, or the
\* memory write raises), the shifted plan stays in the day key and the
\* latest-updated key and the call still returns the reschedule's
\* confirmation.
C16_CollaboratorsNeverBlock ==
    (RescheduleShifted /\ (last.calendar = "raises" \/ last.memory = "raises")) =>
        /\ last.outcome = "ok"
        /\ files.daily[latest[1].path] = FileList(latest[1].tasks)
        /\ files.updated = FileList(latest[1].tasks)

\* C16, the calendar alone: create_event raising does not make the call fail
C16_CalendarNeverBlocks ==
    (RescheduleShifted /\ last.calendar = "raises" /\ last.memory = "ok") =>
        /\ last.outcome = "ok"
        /\ files.daily[latest[1].path] = FileList(latest[1].tasks)
        /\ files.updated = FileList(latest[1].tasks)

-----------------------------------------------------------------------------
(* C17: two sessions reschedule the same day *)

\* both calls have returned or failed
AllFinished == \A s \in Sessions : sessions[s].pc \in {"done", "failed", "raised"}

\* the file holds the tasks of the session w
HoldsTasksOf(file, w) == IsSome(w) /\ file = FileList(sessions[w[1]].plan[1].tasks)

\* the session whose save_plan ended last
LastSaver == wrote.updated

\* C17: in every interleaving of two sessions that load the same day
\* and reschedule it, both calls complete without an error, and the day's key
\* and the latest-updated key both hold the tasks of the session whose save
\* ran last.
C17_LastSaverWins ==
    AllFinished =>
        /\ \A s \in Sessions : sessions[s].pc = "done" /\ sessions[s].error = "none"
        /\ HoldsTasksOf(files.daily[0], LastSaver)
        /\ HoldsTasksOf(files.updated, LastSaver)

\* C17, what every interleaving does guarantee: no call raises and nothing
\* detects the conflict; a session returns an error only as the read error of a load
\* that met the day's file while the other session was rewriting it, and such
\* a session writes nothing; the day's key holds the tasks of the session that
\* wrote the day's key last and the latest-updated key those of the session
\* that wrote the latest-updated key last, which need not be the same session.
C17_EachKeyLastWriter ==
    AllFinished =>
        /\ \A s \in Sessions :
              /\ sessions[s].pc \in {"done", "failed"}
              /\ sessions[s].pc = "done" => sessions[s].error = "none"
              /\ sessions[s].pc = "failed" =>
                    /\ sessions[s].error = "PlanReadError"
                    /\ wrote.day # Some(s) /\ wrote.updated # Some(s)
        /\ HoldsTasksOf(files.daily[0], wrote.day)
        /\ HoldsTasksOf(files.updated, wrote.updated)

\* both sessions saved, and the two keys ended with different writers and
\* different tasks
C17_TornSave ==
    /\ \A s \in Sessions : sessions[s].pc = "done"
    /\ wrote.day # wrote.updated
    /\ files.daily[0] # files.updated

\* a session's load met the truncated file and returned a read error
C17_ReadErrorMidWrite ==
    /\ AllFinished
    /\ \E s \in Sessions : sessions[s].pc = "failed"

-----------------------------------------------------------------------------
(* C18: parse, format, parse *)

RoundTripCalled == last.op = "round_trip"

\* an instant with its seconds dropped
ToTheMinute(dt) == dt - (dt % SecPerMin)

\* the second parse gives the instant of the first, to the minute
RoundTripKeepsInstant ==
    /\ IsSome(last.parsed)
    /\ last.reparsed = Some(ToTheMinute(last.parsed[1]))

\* C18: for every value in a supported format and every plan_date, parsing
\* the value, formatting the result with include_date matching the shape of
\* the value, and parsing that string against the same plan_date gives the
\* instant of the first parse, to the minute.
C18_RoundTrip == RoundTripCalled => RoundTripKeepsInstant

\* C18, from the year 1000 on or with a zero-padding C library: the round
\* trip keeps the instant to the minute.
C18_RoundTripFourDigitYears ==
    (RoundTripCalled /\ IsSome(last.parsed)
        /\ (DateOf(last.parsed[1]) >= FirstDayOfYear1000 \/ last.libc = "padded"))
    => RoundTripKeepsInstant

-----------------------------------------------------------------------------
(* C19: the shape of the normalized view *)

\* one entry per task, each carrying the fields of the task at its index and
\* the timestamps parsed from them
ViewIsPermutation(plan) ==
    LET n == plan.normalized
        ts == plan.tasks
    IN  /\ Len(n) = Len(ts)
        /\ \A k \in 1..Len(ts) : Cardinality({i \in 1..Len(n) : n[i].index = k}) = 1
        /\ \A i \in 1..Len(n) :
              /\ n[i].index \in 1..Len(ts)
              /\ n[i].id = ts[n[i].index].id
              /\ n[i].start = ts[n[i].index].start
              /\ n[i].end = ts[n[i].index].end
              /\ n[i].status = ts[n[i].index].status

\* a string that no supported format matches gives an absent timestamp, a
\* string that one matches a present one
ViewStamps(plan) ==
    \A i \in 1..Len(plan.normalized) :
        LET e == plan.normalized[i]
            Readable(str) == str.fmt \in {"HM", "HMS", "YMDHM", "YMDHMS"}
        IN  /\ IsSome(e.start_dt) <=> Readable(e.start)
            /\ IsSome(e.end_dt) <=> Readable(e.end)
            /\ IsSome(e.start_dt) =>
                  /\ SecOfDay(e.start_dt[1]) = e.start.sod
                  /\ DateOf(e.start_dt[1]) =
                        IF HasDash(e.start) THEN e.start.day ELSE plan.plan_date

\* ascending by start_dt, the untimed entries after the timed ones, equal keys
\* in the order of tasks
ViewIsOrdered(plan) ==
    LET n == plan.normalized
    IN  \A i, j \in 1..Len(n) :
            i < j =>
                /\ IsSome(n[j].start_dt) =>
                      (IsSome(n[i].start_dt) /\ n[i].start_dt[1] <= n[j].start_dt[1])
                /\ n[i].start_dt = n[j].start_dt => n[i].index < n[j].index

ViewSound(plan) == ViewIsPermutation(plan) /\ ViewStamps(plan) /\ ViewIsOrdered(plan)

\* C19: the normalized view of the plan is a permutation of its tasks, one
\* entry per task with the task's position as index, ascending by start_dt
\* with the untimed entries last and ties in authoring order; an unparseable
\* start or end gives an absent timestamp and never an error; this holds
\* after every load_plan, save_plan and shift_remaining.
C19_NormalizedViewSound ==
    /\ IsSome(latest) => ViewSound(latest[1])
    /\ LoadCalled => last.error # "raised"

\* C19, after the calls that return normally: the view of the plan is sound.
C19_ViewSoundAfterReturn ==
    (/\ IsSome(latest)
     /\ ShiftCalled => last.outcome # "raised") => ViewSound(latest[1])

-----------------------------------------------------------------------------
(* C20: the date qualification of the rewritten fields *)

\* the written string carries a date
DateQualified(str) == str.fmt \in {"YMDHM", "Y3MDHM"}

\* the field was written as its own original string and the plan's date ask
QualifiedAsOwn(written, original) ==
    DateQualified(written) <=>
        (HasDash(original) \/ last.pre.plan_date # DateOf(last.at))

\* C20: when shift_remaining rewrites a start or an end, the field is written
\* date-qualified exactly when its own original string carried a date or the
\* plan's date is not today, and time-only otherwise, independently for start
\* and end: a task whose start and end differ in qualification keeps the
\* difference.
C20_PerFieldQualification ==
    ShiftSucceeded =>
        \A e \in ToMove :
            /\ QualifiedAsOwn(latest[1].tasks[e.index].start, e.start)
            /\ QualifiedAsOwn(latest[1].tasks[e.index].end, e.end)

\* C20, what the code does: both fields of a moved task are written as the
\* start string and the plan's date ask.
C20_QualifiedAsStart ==
    ShiftSucceeded =>
        \A e \in ToMove :
            /\ QualifiedAsOwn(latest[1].tasks[e.index].start, e.start)
            /\ QualifiedAsOwn(latest[1].tasks[e.index].end, e.start)

-----------------------------------------------------------------------------
(* C21: what a shift may touch *)

\* the number of tasks, their order, and every field but start and end are
\* as before the call, in memory and in the saved day file
ShiftFrameKept ==
    LET after == latest[1].tasks
        before == last.pre.tasks
        stored == files.daily[latest[1].path].tasks
    IN  /\ Len(after) = Len(before)
        /\ \A i \in 1..Len(before) :
              /\ after[i].id = before[i].id
              /\ after[i].status = before[i].status
        /\ stored = after

\* the moved tasks that had no end have none after the call
EndlessStayEndless ==
    \A e \in ToMove :
        e.end.fmt = "NONE" => latest[1].tasks[e.index].end.fmt = "NONE"

\* C21: shift_remaining shifts the end of a non-anchor task only when the task
\* has one: a task with a resolvable start at or after anchor_end and no end
\* has no end after the shift; and no field other than start and end, nor
\* the number or authoring order of the tasks, is changed.
C21_EndOnlyWhenPresent == ShiftSucceeded => (ShiftFrameKept /\ EndlessStayEndless)

\* C21, the frame alone: a shift changes no field other than start and end,
\* nor the number or order of the tasks.
C21_FrameKept == ShiftSucceeded => ShiftFrameKept

\* C21, what the code does with a moved task that had no end: it gives it the
\* end start + delay.
C21_EndlessGainEnd ==
    ShiftSucceeded =>
        \A e \in ToMove :
            e.end.fmt = "NONE" =>
                ParseTaskTime(latest[1].tasks[e.index].end, DateOf(e.start_dt[1] + LastDelta))
                    = Some(e.start_dt[1] + LastDelta)

-----------------------------------------------------------------------------
(* C22: a reschedule and its opposite *)

\* the second of the two reschedules returned its confirmation
RescheduledBack == last.op = "reschedule_back" /\ last.outcome = "ok"

\* every task has the start_dt and end_dt it had before the first reschedule
StampsRestored ==
    \A i \in 1..Len(last.original.tasks) :
        /\ EntryOf(latest[1].normalized, i).start_dt
              = EntryOf(last.original.normalized, i).start_dt
        /\ EntryOf(latest[1].normalized, i).end_dt
              = EntryOf(last.original.normalized, i).end_dt

\* C22: a reschedule of an anchor by d followed, after a reload of the saved
\* plan, by a reschedule of the same anchor by -d restores the start_dt and
\* end_dt of every task.
C22_Reversible == RescheduledBack => StampsRestored

\* the plan is of whole minutes with start before end on every task, no task
\* starting during another, no task within the delay of midnight, and both
\* reschedules run on the plan's own day
MinutePlanOnItsDay ==
    LET n == last.original.normalized
    IN  /\ last.original.plan_date = DateOf(last.first_at)
        /\ last.original.plan_date = DateOf(last.at)
        /\ \A i \in 1..Len(n) :
              /\ n[i].start.fmt = "HM" /\ n[i].end.fmt = "HM"
              /\ n[i].start_dt[1] < n[i].end_dt[1]
              /\ DateOf(n[i].end_dt[1] + 15 * SecPerMin) = last.original.plan_date
        /\ \A i, j \in 1..Len(n) :
              ~(n[i].start_dt[1] < n[j].start_dt[1]
                  /\ n[j].start_dt[1] < n[i].end_dt[1])

\* C22, for the plans of consecutive complete HH:MM tasks that stay within
\* their day: the two reschedules restore every start_dt and end_dt.
C22_ReversibleOnMinutePlans == (RescheduledBack /\ MinutePlanOnItsDay) => StampsRestored

\* Scenario A rescheduled by a quarter of an hour and back
C22_ScenarioAThereAndBack ==
    /\ RescheduledBack
    /\ MinutePlanOnItsDay
    /\ IsScenarioA(last.original.tasks)
    /\ last.between.tasks # last.original.tasks

====
